---- MODULE Spec2Model ----
(***************************************************************************)
(* Listing filter pipeline of src/app.py: parse_number (European number    *)
(* formats) and filter_listings (numeric range filter over listings); the  *)
(* normalization of raw records in search and get_vehicle_details; and     *)
(* save_vehicle_to_db on the vehicles table.                               *)
(*                                                                         *)
(* A Python str is a sequence of characters; a character is a one-element  *)
(* name.  Characters that are not printable ASCII are named: "euro" is the *)
(* euro sign, "nbsp" is U+00A0, "tab" is U+0009, "sup2" is U+00B2          *)
(* (SUPERSCRIPT TWO, for which str.isdigit() is True and int() raises).    *)
(***************************************************************************)
EXTENDS Integers, Sequences, FiniteSets, TLC

VARIABLES
    pc,         \* "parse" | "filter": the call pending, "done": it returned
    value_str,  \* parse_number: the argument
    result,     \* parse_number: what the call produced (a value or a raise)
    listings,   \* filter_listings: the argument listings
    criteria,   \* filter_listings: the argument criteria
    filtered,   \* filter_listings: the returned list
    dataset,    \* search, get_vehicle_details: dataset_items.items
    normalized, \* search: the listing dicts built from the dataset
    details,    \* get_vehicle_details: the outcome of the normalization
    response,   \* get_vehicle_details: the JSON answer
    vehicles,   \* the rows of the vehicles table
    nextId,     \* the next id the vehicles table gives
    calls,      \* save_vehicle_to_db: the calls running, by request handler
    started,    \* save_vehicle_to_db: the number of calls made so far
    fcalls,     \* filter_listings: calls of concurrent request handlers
    db_type,    \* get_db_connection: "postgres" or "sqlite"
    offers,     \* the rows of the offers table
    nextOfferId, \* the next id the offers table gives
    requests,   \* create_offer: the requests being served, by handler
    served,     \* the number of requests taken so far
    urls,       \* crawl_batch: request.urls
    results,    \* crawl_batch: what crawler.arun_many returned
    batch,      \* crawl_batch: the answer
    crawls,     \* crawl_batch: the number of crawls started
    search,     \* execute_car_search: the call (arguments, locals, result)
    log         \* execute_car_search: the searches and sends made, in order

parseVars == <<value_str, result>>
filterVars == <<listings, criteria, filtered>>
searchVars == <<dataset, normalized, details, response>>
dbVars == <<vehicles, nextId, calls, started>>
offerVars == <<db_type, offers, nextOfferId, requests, served>>
crawlVars == <<urls, results, batch, crawls>>
mailVars == <<search, log>>
restVars == <<offerVars, crawlVars, mailVars>>

vars == <<pc, parseVars, filterVars, searchVars, dbVars, fcalls, restVars>>

(***************************************************************************)
(* Bounds of the model.                                                    *)
(***************************************************************************)
MaxLen == 4        \* tokens in a parse_number argument
MaxListings == 2   \* listings in a filter_listings argument
MaxCalls == 3      \* calls of save_vehicle_to_db in a run
MaxRequests == 3   \* requests on offers and vehicles in a run
MaxUrls == 11      \* urls in a crawl_batch request

(***************************************************************************)
(* Python values: None, int, str; and the outcome "raised ValueError".     *)
(***************************************************************************)
None == [kind |-> "None", val |-> 0, str |-> <<>>]
IntVal(n) == [kind |-> "int", val |-> n, str |-> <<>>]
StrVal(s) == [kind |-> "str", val |-> 0, str |-> s]
ValueError == [kind |-> "ValueError", val |-> 0, str |-> <<>>]

\* bool(v): None, 0 and '' are falsy.
Truthy(v) ==
    \/ v.kind = "int" /\ v.val # 0
    \/ v.kind = "str" /\ v.str # <<>>

(***************************************************************************)
(* The parts of the state an operation does not use, as they are before    *)
(* any request.                                                            *)
(***************************************************************************)
NoParse == value_str = <<>> /\ result = None
NoFilter ==
    /\ listings = <<>>
    /\ criteria = [modelYear |-> None, mileage |-> None, price |-> None]
    /\ filtered = <<>>
NoSearch ==
    dataset = <<>> /\ normalized = <<>> /\ details = None /\ response = None
NoDb == vehicles = {} /\ nextId = 1 /\ calls = <<>> /\ started = 0
NoCalls == fcalls = <<>>
NoOffers ==
    /\ db_type = "sqlite"
    /\ offers = {}
    /\ nextOfferId = 1
    /\ requests = <<>>
    /\ served = 0
NoCrawl == urls = <<>> /\ results = <<>> /\ batch = None /\ crawls = 0
NoMail == search = None /\ log = <<>>
NoRest == NoOffers /\ NoCrawl /\ NoMail

(***************************************************************************)
(* Characters.                                                             *)
(***************************************************************************)
DecimalDigits == {"0", "1", "2", "3", "4", "5", "6", "7", "8", "9"}

DigitVal(c) ==
    CASE c = "0" -> 0 [] c = "1" -> 1 [] c = "2" -> 2 [] c = "3" -> 3
      [] c = "4" -> 4 [] c = "5" -> 5 [] c = "6" -> 6 [] c = "7" -> 7
      [] c = "8" -> 8 [] c = "9" -> 9

\* str.isdigit(): the decimal digits and the digit-like characters that are
\* not decimal, of which the model has U+00B2.
IsDigit(c) == c \in DecimalDigits \cup {"sup2"}

\* What str.strip() and int() take for white space.
Whitespace == {" ", "nbsp", "tab"}

NA == <<"N", "/", "A">>
KM == <<"k", "m">>
EUR == <<"E", "U", "R">>

(***************************************************************************)
(* str methods.                                                            *)
(***************************************************************************)
RECURSIVE Replace(_, _)
\* s.replace(old, ''): every non-overlapping occurrence, left to right.
Replace(s, old) ==
    IF Len(s) < Len(old) THEN s
    ELSE IF SubSeq(s, 1, Len(old)) = old
         THEN Replace(SubSeq(s, Len(old) + 1, Len(s)), old)
         ELSE <<Head(s)>> \o Replace(Tail(s), old)

RECURSIVE LStrip(_)
LStrip(s) ==
    IF s # <<>> /\ Head(s) \in Whitespace THEN LStrip(Tail(s)) ELSE s

RECURSIVE RStrip(_)
RStrip(s) ==
    IF s # <<>> /\ s[Len(s)] \in Whitespace
    THEN RStrip(SubSeq(s, 1, Len(s) - 1)) ELSE s

\* s.strip()
Strip(s) == RStrip(LStrip(s))

\* ''.join(c for c in s if c.isdigit())
DigitsOf(s) == SelectSeq(s, IsDigit)

RECURSIVE Contains(_, _)
\* c in s
Contains(s, c) ==
    IF s = <<>> THEN FALSE ELSE Head(s) = c \/ Contains(Tail(s), c)

RECURSIVE AfterLast(_, _)
\* s.split(c)[-1]
AfterLast(s, c) ==
    IF Contains(s, c) THEN AfterLast(Tail(s), c) ELSE s

(***************************************************************************)
(* int(s) for a str: white space around the literal is dropped, a sign may *)
(* lead, the rest is one or more decimal digits; anything else raises      *)
(* ValueError.                                                             *)
(***************************************************************************)
RECURSIVE DecimalValue(_)
DecimalValue(ds) ==
    IF ds = <<>> THEN 0
    ELSE 10 * DecimalValue(SubSeq(ds, 1, Len(ds) - 1)) + DigitVal(ds[Len(ds)])

AllDecimal(ds) == ds # <<>> /\ \A i \in 1..Len(ds) : ds[i] \in DecimalDigits

IntLiteral(s) ==
    LET t == Strip(s)
        signed == t # <<>> /\ Head(t) \in {"-", "+"}
        ds == IF signed THEN Tail(t) ELSE t
    IN  [ok |-> AllDecimal(ds),
         val |-> IF ~AllDecimal(ds) THEN 0
                 ELSE IF signed /\ Head(t) = "-" THEN 0 - DecimalValue(ds)
                 ELSE DecimalValue(ds)]

\* int(s): IntVal(n), or the ValueError outcome.
PyInt(s) == IF IntLiteral(s).ok THEN IntVal(IntLiteral(s).val) ELSE ValueError

(***************************************************************************)
(* parse_number                                                            *)
(***************************************************************************)
RECURSIVE UpTo(_, _)
\* The part of s before the first c.
UpTo(s, c) ==
    IF s = <<>> \/ Head(s) = c THEN <<>> ELSE <<Head(s)>> \o UpTo(Tail(s), c)

\* Cleaned with '.' read as a decimal point: the fraction is cut off.
CleanedDecimalPoint(value_str_) ==
    LET s1 == Replace(Replace(Replace(value_str_, KM), <<"euro">>), EUR)
        s2 == Replace(Replace(Replace(s1, <<" ">>), <<"nbsp">>), <<"nbsp">>)
        s3 == UpTo(Replace(s2, <<",">>), ".")
    IN  Strip(s3)

\* The string after the replace and strip calls (lines 2126-2143).
Cleaned(value_str_) ==
    LET s1 == Replace(Replace(Replace(value_str_, KM), <<"euro">>), EUR)
        s2 == Replace(Replace(Replace(s1, <<" ">>), <<"nbsp">>), <<"nbsp">>)
        s3 == Replace(Replace(s2, <<",">>), <<".">>)
    IN  Strip(s3)

\* IntOrNone written as "int(s) or None": a zero comes out as None.
IntOrNoneFalsyZero(s) ==
    IF s = <<>> \/ PyInt(s) = IntVal(0) THEN None ELSE PyInt(s)

\* Lines 2147 and 2151: int(s) if s else None
IntOrNone(s) == IF s = <<>> THEN None ELSE PyInt(s)

parse_number(value_str_) ==
    IF value_str_ = <<>> \/ value_str_ = NA THEN None
    ELSE LET s == Cleaned(value_str_)
         IN  IF IntOrNone(s) # ValueError THEN IntOrNone(s)
             ELSE IntOrNone(DigitsOf(s))

(***************************************************************************)
(* Arguments of parse_number: up to MaxLen tokens, joined.                 *)
(***************************************************************************)
Tokens ==
    { <<"0">>, <<"1">>, <<".">>, <<",">>, <<" ">>, <<"nbsp">>, <<"tab">>,
      KM, <<"euro">>, EUR, <<"x">>, <<"sup2">>, <<"-">> }

RECURSIVE Join(_)
Join(ts) == IF ts = <<>> THEN <<>> ELSE Head(ts) \o Join(Tail(ts))

TokenSeqs == UNION { [1..n -> Tokens] : n \in 0..MaxLen }

ParseArgs == { Join(ts) : ts \in TokenSeqs } \cup {NA}

InitParse ==
    /\ pc = "parse"
    /\ value_str \in ParseArgs
    /\ result = None
    /\ NoFilter /\ NoSearch /\ NoDb /\ NoCalls /\ NoRest

ParseNumberCall ==
    /\ pc = "parse"
    /\ result' = parse_number(value_str)
    /\ pc' = "done"
    /\ UNCHANGED <<value_str, filterVars, searchVars, dbVars, fcalls,
                   restVars>>

NextParse == ParseNumberCall

SpecParse == InitParse /\ [][NextParse]_vars

(***************************************************************************)
(* Properties of parse_number, under SpecParse.                            *)
(***************************************************************************)
Returned == pc = "done"

\* The decimal digits of s, in order.
IsDecimalDigit(c) == c \in DecimalDigits
DecimalDigitsOf(s) == SelectSeq(s, IsDecimalDigit)

\* C7: parse_number returns None for the empty string and for "N/A", and
\* None is not zero: "0" parses to the integer 0.
C7_NoneIsNotZero ==
    Returned =>
        /\ value_str \in {<<>>, NA} => result = None
        /\ value_str = <<"0">> => result = IntVal(0) /\ result # None

C7_Witness == Returned /\ value_str = <<"0">> /\ result = IntVal(0)

RECURSIVE FormattedNumber(_)
\* s is built from decimal digits, '.' and ',', ordinary and non-breaking
\* spaces and the unit tokens km, euro sign and EUR.
FormattedNumber(s) ==
    \/ s = <<>>
    \/ /\ Head(s) \in DecimalDigits \cup {".", ",", " ", "nbsp", "euro"}
       /\ FormattedNumber(Tail(s))
    \/ /\ Len(s) >= 2
       /\ SubSeq(s, 1, 2) = KM
       /\ FormattedNumber(SubSeq(s, 3, Len(s)))
    \/ /\ Len(s) >= 3
       /\ SubSeq(s, 1, 3) = EUR
       /\ FormattedNumber(SubSeq(s, 4, Len(s)))

\* The examples of C8.
C8_Examples ==
    /\ parse_number(<<"1", "1", "0", ".", "0", "0", "0", " ", "k", "m">>)
           = IntVal(110000)
    /\ parse_number(<<"4", "5", ",", "0", "0", "0">>) = IntVal(45000)
    /\ parse_number(<<"1", ".", "2", "3", "4", ".", "5", "6", "7">>)
           = IntVal(1234567)
    /\ parse_number(<<"euro", " ", "2", "5", ".", "0", "0", "0">>)
           = IntVal(25000)

\* C8: for every string built from decimal digits, '.' and ',' separators,
\* spaces, non-breaking spaces and the unit tokens that holds a digit,
\* parse_number returns the integer formed by the digits in their order;
\* so for "110.000 km", "45,000", "1.234.567" and "(euro) 25.000".
C8_DigitsInOrder ==
    /\ Returned /\ FormattedNumber(value_str) /\ DecimalDigitsOf(value_str) # <<>>
           => result = IntVal(DecimalValue(DecimalDigitsOf(value_str)))
    /\ C8_Examples

C8_Witness ==
    /\ Returned
    /\ value_str = <<"1", ".", "0", "k", "m">>
    /\ result = IntVal(10)

\* C9: when the cleaned remainder is not an integer literal, the result is
\* the integer formed by the digit characters of the remainder alone, and
\* None when the remainder holds no digit character.
C9_Fallback ==
    Returned /\ value_str \notin {<<>>, NA}
             /\ Cleaned(value_str) # <<>>
             /\ PyInt(Cleaned(value_str)) = ValueError
        => result = IF DecimalDigitsOf(Cleaned(value_str)) = <<>> THEN None
                    ELSE IntVal(DecimalValue(DecimalDigitsOf(Cleaned(value_str))))

\* C10: parse_number is total: it returns an integer or None and never
\* raises.
C10_Total == Returned => result.kind \in {"int", "None"}

(***************************************************************************)
(* filter_listings                                                         *)
(***************************************************************************)
\* int(v) of a criteria value that passed the truth test: an int is itself,
\* a str is parsed.
IntOf(v) == IF v.kind = "int" THEN v ELSE PyInt(v.str)

\* The part of s before the first occurrence of c.
BeforeFirst(s, c) ==
    IF Contains(s, c)
    THEN SubSeq(s, 1, (CHOOSE i \in 1..Len(s) :
                          s[i] = c /\ \A j \in 1..(i - 1) : s[j] # c) - 1)
    ELSE s

\* ParseYear with split('/')[0]: the month of a month/year pair.
ParseYearFirst(year_str) ==
    IF year_str # <<>> /\ year_str # NA
    THEN IF Contains(year_str, "/") THEN PyInt(BeforeFirst(year_str, "/"))
         ELSE PyInt(year_str)
    ELSE None

\* Lines 2160-2164: the year of a listing.
ParseYear(year_str) ==
    IF year_str # <<>> /\ year_str # NA
    THEN IF Contains(year_str, "/") THEN PyInt(AfterLast(year_str, "/"))
         ELSE PyInt(year_str)
    ELSE None

\* YearExcludes with the bound exclusive: year <= min_year
YearExcludesInclusive(year, min_year) == Truthy(year) /\ year.val <= min_year

\* Line 2178: year and year < min_year
YearExcludes(year, min_year) == Truthy(year) /\ year.val < min_year

\* MileageExcludes failing closed: an unparsed mileage is excluded too.
MileageExcludesFailClosed(mileage, max_mileage) ==
    mileage = None \/ mileage.val > max_mileage

\* Line 2185: mileage is not None and mileage > max_mileage
MileageExcludes(mileage, max_mileage) ==
    mileage # None /\ mileage.val > max_mileage

\* PriceExcludes with the bound exclusive: price >= max_price
PriceExcludesInclusive(price, max_price) ==
    price # None /\ price.val >= max_price

\* Line 2192: price is not None and price > max_price
PriceExcludes(price, max_price) == price # None /\ price.val > max_price

\* The body of the try block for one item: "append" (line 2196), "continue"
\* (lines 2180, 2187, 2194) or "except" (a statement raised, line 2197).
Evaluate(item, criteria_) ==
    LET year == ParseYear(item.year)
        mileage == parse_number(item.mileage)
        price == parse_number(item.price)
        min_year == IntOf(criteria_.modelYear)
        max_mileage == IntOf(criteria_.mileage)
        max_price == IntOf(criteria_.price)
    IN  IF ValueError \in {year, mileage, price} THEN "except"
        ELSE IF Truthy(criteria_.modelYear) /\ min_year = ValueError
             THEN "except"
        ELSE IF Truthy(criteria_.modelYear) /\ YearExcludes(year, min_year.val)
             THEN "continue"
        ELSE IF Truthy(criteria_.mileage) /\ max_mileage = ValueError
             THEN "except"
        ELSE IF Truthy(criteria_.mileage)
                /\ MileageExcludes(mileage, max_mileage.val)
             THEN "continue"
        ELSE IF Truthy(criteria_.price) /\ max_price = ValueError
             THEN "except"
        ELSE IF Truthy(criteria_.price) /\ PriceExcludes(price, max_price.val)
             THEN "continue"
        ELSE "append"

\* Step without line 2199: an item whose evaluation raised is dropped.
StepDropOnError(filtered_, item, criteria_) ==
    IF Evaluate(item, criteria_) = "append" THEN Append(filtered_, item)
    ELSE filtered_

\* Step with filtered.insert(0, item) for filtered.append(item).
StepPrepend(filtered_, item, criteria_) ==
    IF Evaluate(item, criteria_) = "continue" THEN filtered_
    ELSE <<item>> \o filtered_

\* One iteration of the loop of line 2157 on the list built so far.
Step(filtered_, item, criteria_) ==
    LET outcome == Evaluate(item, criteria_)
    IN  CASE outcome = "continue" -> filtered_
          [] outcome = "append" -> Append(filtered_, item)
          [] outcome = "except" -> Append(filtered_, item)

RECURSIVE LoopAbortOnError(_, _, _)
\* Loop with the try around the whole loop: the first item whose evaluation
\* raises ends the pass.
LoopAbortOnError(rest, criteria_, filtered_) ==
    IF rest = <<>> \/ Evaluate(Head(rest), criteria_) = "except" THEN filtered_
    ELSE LoopAbortOnError(Tail(rest), criteria_,
                          Step(filtered_, Head(rest), criteria_))

RECURSIVE Loop(_, _, _)
\* Lines 2155-2201: the for loop, from the items left and the list so far.
Loop(rest, criteria_, filtered_) ==
    IF rest = <<>> THEN filtered_
    ELSE Loop(Tail(rest), criteria_, Step(filtered_, Head(rest), criteria_))

filter_listings(listings_, criteria_) == Loop(listings_, criteria_, <<>>)

(***************************************************************************)
(* Arguments of filter_listings.                                           *)
(***************************************************************************)
\* Spec: sequences of up to MaxListings listings.
Years == { <<>>, <<"x">>, <<"1">> }
Mileages == { NA, <<"2">>, <<"3", " ", "k", "m">> }
Prices == { <<>>, <<"3">> }

Items == [year : Years, mileage : Mileages, price : Prices]

\* criteria.get(key): None when the key is absent; the request's JSON gives
\* ints and strs.
Criteria ==
    [modelYear : {None, IntVal(2), StrVal(<<"x">>)},
     mileage : {None, IntVal(2)},
     price : {StrVal(<<>>), StrVal(<<"2">>)}]

ListingSeqs == UNION { [1..n -> Items] : n \in 0..MaxListings }

Init ==
    /\ pc = "filter"
    /\ listings \in ListingSeqs
    /\ criteria \in Criteria
    /\ filtered = <<>>
    /\ NoParse /\ NoSearch /\ NoDb /\ NoCalls /\ NoRest

FilterListingsCall ==
    /\ pc = "filter"
    /\ filtered' = filter_listings(listings, criteria)
    /\ pc' = "done"
    /\ UNCHANGED <<listings, criteria, parseVars, searchVars, dbVars, fcalls,
                   restVars>>

Next == FilterListingsCall

Spec == Init /\ [][Next]_vars

\* SpecItem: one listing, with more kinds of field and of criteria value.
ItemYears ==
    { <<>>, NA, <<"0">>, <<"1">>, <<"2">>, <<"6", "/", "1">>,
      <<"6", "/", "2">>, <<"x">> }
ItemMileages ==
    { <<>>, NA, <<"x">>, <<"2">>, <<"3", " ", "k", "m">>, <<"1", "sup2">> }
ItemPrices == { <<>>, NA, <<"2">>, <<"euro", "nbsp", "3">> }

SingleItems == [year : ItemYears, mileage : ItemMileages, price : ItemPrices]

ItemCriteria ==
    [modelYear : {None, StrVal(<<>>), IntVal(0), IntVal(2), StrVal(<<"2">>),
                  StrVal(<<"x">>)},
     mileage : {None, IntVal(0), IntVal(2), StrVal(<<"x">>)},
     price : {None, StrVal(<<>>), IntVal(2), StrVal(<<"x">>)}]

InitItem ==
    /\ pc = "filter"
    /\ listings \in { <<item>> : item \in SingleItems }
    /\ criteria \in ItemCriteria
    /\ filtered = <<>>
    /\ NoParse /\ NoSearch /\ NoDb /\ NoCalls /\ NoRest

SpecItem == InitItem /\ [][Next]_vars

(***************************************************************************)
(* Properties of filter_listings: of one listing under SpecItem, of a      *)
(* sequence under Spec.                                                    *)
(***************************************************************************)
\* Listing i of the input is in the output / is left out of it.  (Equal
\* listings are evaluated alike, so all of them are kept or none is.)
Retained(i) == \E k \in 1..Len(filtered) : filtered[k] = listings[i]
Excluded(i) == ~Retained(i)

\* A bound is present in criteria: the key is there and is not empty.
BoundSet(v) == v # None /\ v # StrVal(<<>>)

\* The value of a field parsed to an integer.
Parsed(v) == v.kind = "int"

\* The listing's year is below a present minimum year, its mileage above a
\* present maximum mileage, its price above a present maximum price.
ViolatesYear(item) ==
    /\ BoundSet(criteria.modelYear) /\ Parsed(IntOf(criteria.modelYear))
    /\ Parsed(ParseYear(item.year))
    /\ ParseYear(item.year).val < IntOf(criteria.modelYear).val

ViolatesMileage(item) ==
    /\ BoundSet(criteria.mileage) /\ Parsed(IntOf(criteria.mileage))
    /\ Parsed(parse_number(item.mileage))
    /\ parse_number(item.mileage).val > IntOf(criteria.mileage).val

ViolatesPrice(item) ==
    /\ BoundSet(criteria.price) /\ Parsed(IntOf(criteria.price))
    /\ Parsed(parse_number(item.price))
    /\ parse_number(item.price).val > IntOf(criteria.price).val

\* C1: fail-open on mileage: a listing whose mileage parses to None is kept
\* when the mileage bound is set and no other bound excludes the listing.
C1_FailOpenMileage ==
    Returned =>
        \A i \in 1..Len(listings) :
            /\ parse_number(listings[i].mileage) = None
            /\ BoundSet(criteria.mileage)
            /\ ~ViolatesYear(listings[i])
            /\ ~ViolatesPrice(listings[i])
            => Retained(i)

C1_Witness ==
    /\ Returned
    /\ Len(listings) = 1
    /\ listings[1].mileage = NA
    /\ criteria.mileage = IntVal(2)
    /\ filtered = listings

\* C2: exclusion is sound: every listing left out of the output has a bound
\* that is present, whose field parsed to a value, and whose value violates
\* it (mileage or price above the maximum, year below the minimum).
C2_ExclusionSound ==
    Returned =>
        \A i \in 1..Len(listings) :
            Excluded(i) => \/ ViolatesYear(listings[i])
                           \/ ViolatesMileage(listings[i])
                           \/ ViolatesPrice(listings[i])

C2_Witness ==
    /\ Returned
    /\ Len(listings) = 1
    /\ ViolatesPrice(listings[1])
    /\ ~ViolatesYear(listings[1]) /\ ~ViolatesMileage(listings[1])
    /\ filtered = <<>>

\* A field of the listing parsed to exactly the present bound.
EqualsBound(field, bound) ==
    /\ BoundSet(bound) /\ Parsed(IntOf(bound))
    /\ Parsed(field) /\ field.val = IntOf(bound).val

\* C3: the bounds are inclusive: a listing whose price equals the maximum
\* price, whose mileage equals the maximum mileage or whose year equals the
\* minimum year is kept by that bound (it is kept unless another bound is
\* violated).
C3_BoundsInclusive ==
    Returned =>
        \A i \in 1..Len(listings) :
            LET item == listings[i] IN
            /\ EqualsBound(parse_number(item.price), criteria.price)
               /\ ~ViolatesYear(item) /\ ~ViolatesMileage(item)
               => Retained(i)
            /\ EqualsBound(parse_number(item.mileage), criteria.mileage)
               /\ ~ViolatesYear(item) /\ ~ViolatesPrice(item)
               => Retained(i)
            /\ EqualsBound(ParseYear(item.year), criteria.modelYear)
               /\ ~ViolatesMileage(item) /\ ~ViolatesPrice(item)
               => Retained(i)

C3_Witness ==
    /\ Returned
    /\ Len(listings) = 1
    /\ EqualsBound(parse_number(listings[1].price), criteria.price)
    /\ EqualsBound(parse_number(listings[1].mileage), criteria.mileage)
    /\ EqualsBound(ParseYear(listings[1].year), criteria.modelYear)
    /\ filtered = listings

\* No bound is set: every bound key is absent or empty.
NoBounds ==
    ~BoundSet(criteria.modelYear) /\ ~BoundSet(criteria.mileage)
        /\ ~BoundSet(criteria.price)

\* C4: identity law: with criteria that set no bound, filter returns the
\* input, element for element, unparsable listings included.
C4_Identity == Returned /\ NoBounds => filtered = listings

C4_Witness ==
    /\ Returned /\ NoBounds
    /\ Len(listings) = 2
    /\ ParseYear(listings[1].year) = ValueError
    /\ parse_number(listings[1].mileage) = None
    /\ parse_number(listings[2].price) = None
    /\ ParseYear(listings[2].year) = None
    /\ filtered = listings

RECURSIVE IsSubsequence(_, _)
\* a is b with some elements removed, the rest in b's order.
IsSubsequence(a, b) ==
    IF a = <<>> THEN TRUE
    ELSE IF b = <<>> THEN FALSE
    ELSE IF Head(a) = Head(b) THEN IsSubsequence(Tail(a), Tail(b))
    ELSE IsSubsequence(a, Tail(b))

\* C5: the output is a subsequence of the input: no longer than the input,
\* nothing added or duplicated, the kept listings in input order, also
\* those kept through the exception path.
C5_Subsequence ==
    /\ Len(filtered) <= Len(listings)
    /\ IsSubsequence(filtered, listings)

C5_Witness ==
    /\ Returned
    /\ Len(listings) = 2
    /\ listings[1] # listings[2]
    /\ Evaluate(listings[1], criteria) = "append"
    /\ Evaluate(listings[2], criteria) = "except"
    /\ BoundSet(criteria.mileage)
    /\ filtered = listings

\* Evaluating the listing raises: its year is not an integer, or the year
\* bound of the criteria is not an integer.
YearNotInteger(item) == ParseYear(item.year) = ValueError
BoundNotInteger(v) == Truthy(v) /\ IntOf(v) = ValueError

RECURSIVE EachAlone(_)
\* The listings of ls that filter keeps when it is given each one alone.
EachAlone(ls) ==
    IF ls = <<>> THEN <<>>
    ELSE filter_listings(<<Head(ls)>>, criteria) \o EachAlone(Tail(ls))

\* C6: per-item exception isolation: a listing whose evaluation raises is
\* kept, and every listing of the sequence is evaluated as if it were
\* alone, whatever the others raise.
C6_ExceptionIsolation ==
    Returned =>
        /\ \A i \in 1..Len(listings) :
               YearNotInteger(listings[i]) \/ BoundNotInteger(criteria.modelYear)
                   => Retained(i)
        /\ filtered = EachAlone(listings)

C6_Witness ==
    /\ Returned
    /\ Len(listings) = 2
    /\ YearNotInteger(listings[1])
    /\ ViolatesMileage(listings[1])
    /\ ViolatesMileage(listings[2])
    /\ filtered = <<listings[1]>>

(***************************************************************************)
(* dicts of the scraper's JSON and of the handlers.  A dict is a record;   *)
(* a key whose value is Absent is not in the dict.                         *)
(***************************************************************************)
Absent == [kind |-> "absent", val |-> 0, str |-> <<>>]
AttributeError == [kind |-> "AttributeError", val |-> 0, str |-> <<>>]

\* d.get(key, default)
Get(d, key, default) ==
    IF key \in DOMAIN d /\ d[key] # Absent THEN d[key] ELSE default

\* isinstance(v, dict)
IsDict(v) == v.kind = "dict"

RECURSIVE DecimalString(_)
\* str(n) of an int n >= 0
DecimalString(n) ==
    LET last == CHOOSE c \in DecimalDigits : DigitVal(c) = n % 10
    IN  IF n < 10 THEN <<last>> ELSE DecimalString(n \div 10) \o <<last>>

\* str(v) of None, an int or a str
PyStr(v) ==
    CASE v.kind = "str" -> v
      [] v.kind = "int" ->
            StrVal(IF v.val < 0 THEN <<"-">> \o DecimalString(0 - v.val)
                   ELSE DecimalString(v.val))
      [] v.kind = "None" -> StrVal(<<"N", "o", "n", "e">>)

\* Lines 2258, 2260, 2261 and 2606-2608: str(v) if v != 'N/A' else 'N/A'
StrOrNA(v) == IF v # StrVal(NA) THEN PyStr(v) ELSE StrVal(NA)

\* PriceOf without the look into a dict: a dict price counts as no price.
PriceOfNoAmount(item) ==
    LET price == Get(item, "price", StrVal(NA))
    IN  IF IsDict(price) THEN StrVal(NA) ELSE price

\* Lines 2249-2251 and 2596-2598: the price of a raw record.
PriceOf(item) ==
    LET price == Get(item, "price", StrVal(NA))
    IN  IF IsDict(price) THEN Get(price, "amount", StrVal(NA)) ELSE price

EmptyDict == [kind |-> "dict"]

\* NormalizeSearch reading mileage and year from the record itself.
NormalizeSearchTopLevel(item) ==
    LET properties == Get(item, "properties", EmptyDict)
        mileage == Get(item, "mileage", StrVal(NA))
        year == Get(item, "year", StrVal(NA))
    IN  IF ~IsDict(properties) THEN AttributeError
        ELSE [kind |-> "dict",
              title |-> Get(item, "title",
                            Get(item, "name",
                                StrVal(<<"V", "e", "h", "i", "c", "l", "e">>))),
              price |-> StrOrNA(PriceOf(item)),
              mileage |-> StrOrNA(mileage),
              year |-> StrOrNA(year),
              url |-> Get(item, "url", Get(item, "link", StrVal(<<>>)))]

\* Lines 2596-2610: the listing search builds from one raw record, or
\* AttributeError when properties has no get.
NormalizeSearch(item) ==
    LET properties == Get(item, "properties", EmptyDict)
        mileage == Get(properties, "milage", StrVal(NA))
        year == Get(properties, "firstRegistration", StrVal(NA))
    IN  IF ~IsDict(properties) THEN AttributeError
        ELSE [kind |-> "dict",
              title |-> Get(item, "title",
                            Get(item, "name",
                                StrVal(<<"V", "e", "h", "i", "c", "l", "e">>))),
              price |-> StrOrNA(PriceOf(item)),
              mileage |-> StrOrNA(mileage),
              year |-> StrOrNA(year),
              url |-> Get(item, "url", Get(item, "link", StrVal(<<>>)))]

\* Lines 2249-2267: the details get_vehicle_details builds from the raw
\* record of the requested url, or AttributeError.
NormalizeDetails(item, url) ==
    LET properties == Get(item, "properties", EmptyDict)
        mileage == Get(properties, "milage", Get(item, "mileage", StrVal(NA)))
        year == Get(properties, "firstRegistration",
                    Get(item, "year", StrVal(NA)))
    IN  IF ~IsDict(properties) THEN AttributeError
        ELSE [kind |-> "dict",
              title |-> Get(item, "title", StrVal(NA)),
              price |-> StrOrNA(PriceOf(item)),
              url |-> Get(item, "url", url),
              mileage |-> StrOrNA(mileage),
              year |-> StrOrNA(year),
              fuel |-> Get(item, "fuel", StrVal(NA)),
              transmission |-> Get(item, "transmission", StrVal(NA)),
              power |-> Get(item, "power", StrVal(NA)),
              properties |-> properties]

(***************************************************************************)
(* The vehicles table and save_vehicle_to_db.  A row holds the id and the  *)
(* columns of the INSERT.  A statement sees the committed rows; the INSERT *)
(* and its commit are one step.                                            *)
(***************************************************************************)
Columns == {"title", "price", "mileage", "year", "fuel", "transmission", "power"}

\* Line 156: vehicle_data.get('url', '')
UrlOf(vehicle_data) == Get(vehicle_data, "url", StrVal(<<>>))

\* Lines 160-164: SELECT id FROM vehicles WHERE url = ?
SelectByUrl(rows, url) == { r \in rows : r.url = url }

\* A value as a TEXT column keeps it: NULL, or its text.
Text(v) == IF v = None THEN None ELSE PyStr(v)

\* Line 155: the JSON text of the properties, None for no properties or
\* empty ones.  The text is kept as the dict it encodes.
PropertiesJson(vehicle_data) ==
    LET properties == Get(vehicle_data, "properties", None)
    IN  IF IsDict(properties)
               /\ \E k \in DOMAIN properties \ {"kind"} :
                      properties[k] # Absent
        THEN [kind |-> "json", dict |-> properties]
        ELSE None

\* The row of the INSERT of lines 168-201.
Row(id, vehicle_data) ==
    [c \in Columns \cup {"id", "url", "properties"} |->
        IF c = "id" THEN IntVal(id)
        ELSE IF c = "url" THEN Text(UrlOf(vehicle_data))
        ELSE IF c = "properties" THEN PropertiesJson(vehicle_data)
        ELSE Text(Get(vehicle_data, c, None))]

\* UniqueViolation without the constraint: the column is plain TEXT.
UniqueViolationNone(rows, url) == FALSE

\* Lines 96 and 127: url TEXT UNIQUE (NULLs do not collide).
UniqueViolation(rows, url) == url # None /\ SelectByUrl(rows, url) # {}

\* The INSERT raises: title TEXT NOT NULL (lines 89, 120), url TEXT UNIQUE.
InsertRaises(rows, vehicle_data) ==
    \/ Get(vehicle_data, "title", None) = None
    \/ UniqueViolation(rows, UrlOf(vehicle_data))

\* Lines 159-166: the id of the row with this url, or Absent when the
\* SELECT is skipped or finds nothing.
Existing(rows, vehicle_data) ==
    IF Truthy(UrlOf(vehicle_data))
           /\ SelectByUrl(rows, UrlOf(vehicle_data)) # {}
    THEN (CHOOSE r \in SelectByUrl(rows, UrlOf(vehicle_data)) : TRUE).id
    ELSE Absent

\* Lines 150-214, run without interruption: the table, the next id and the
\* returned value.  (An id is drawn for a row that is stored; ids are never
\* given twice.)
save_vehicle_to_db(rows, id, vehicle_data) ==
    IF Existing(rows, vehicle_data) # Absent
    THEN [vehicles |-> rows, nextId |-> id,
          ret |-> Existing(rows, vehicle_data)]
    ELSE IF InsertRaises(rows, vehicle_data)
    THEN [vehicles |-> rows, nextId |-> id, ret |-> None]
    ELSE [vehicles |-> rows \cup {Row(id, vehicle_data)}, nextId |-> id + 1,
          ret |-> IntVal(id)]

(***************************************************************************)
(* search and get_vehicle_details                                          *)
(***************************************************************************)
RECURSIVE NormalizeAll(_, _)
\* Lines 2592-2612: the loop over the dataset, inside one try: the first
\* record that raises ends the loop, the listings built so far stay.
NormalizeAll(items, built) ==
    IF items = <<>> \/ NormalizeSearch(Head(items)) = AttributeError THEN built
    ELSE NormalizeAll(Tail(items), Append(built, NormalizeSearch(Head(items))))

\* What filter_listings reads of a listing dict: item.get('year', ''),
\* item.get('mileage', ''), item.get('price', ''), all of them strs.
FilterView(listing) ==
    [year |-> listing.year.str, mileage |-> listing.mileage.str,
     price |-> listing.price.str]

\* search, lines 2592-2622: listings holds what filter_listings reads of
\* the listing dicts, filtered what it reads of the answer's listings.
SearchCall ==
    /\ pc = "search"
    /\ normalized' = NormalizeAll(dataset, <<>>)
    /\ listings' = [i \in 1..Len(normalized') |-> FilterView(normalized'[i])]
    /\ filtered' = filter_listings(listings', criteria)
    /\ pc' = "searched"
    /\ UNCHANGED <<dataset, criteria, details, response, parseVars, dbVars,
                   fcalls, restVars>>

\* The url of the request of get_vehicle_details (not empty: line 2217).
RequestUrl == StrVal(<<"r">>)

Failure == [success |-> FALSE, vehicle_id |-> None]

\* get_vehicle_details, lines 2245-2290, on items[0] of the dataset.
VehicleDetailsCall ==
    /\ pc = "details"
    /\ pc' = "answered"
    /\ IF dataset = <<>>
       THEN /\ details' = None
            /\ response' = Failure
            /\ UNCHANGED <<vehicles, nextId>>
       ELSE /\ details' = NormalizeDetails(dataset[1], RequestUrl)
            /\ IF details' = AttributeError
               THEN response' = Failure /\ UNCHANGED <<vehicles, nextId>>
               ELSE LET saved == save_vehicle_to_db(vehicles, nextId, details')
                    IN  /\ vehicles' = saved.vehicles
                        /\ nextId' = saved.nextId
                        /\ response' = [success |-> TRUE,
                                        vehicle_id |-> saved.ret]
    /\ UNCHANGED <<dataset, normalized, filterVars, parseVars, calls, started,
                   fcalls, restVars>>

NextNormalize == SearchCall \/ VehicleDetailsCall

(***************************************************************************)
(* Dataset records of the scraper, as the two handlers read them.  A key   *)
(* the record does not have holds Absent.                                  *)
(***************************************************************************)
Str30000 == StrVal(<<"3", "0", "0", "0", "0">>)
Str50000km == StrVal(<<"5", "0", ".", "0", "0", "0", " ", "k", "m">>)
Str7km == StrVal(<<"7", " ", "k", "m">>)
Str2021 == StrVal(<<"2", "0", "2", "1">>)
Str2020 == StrVal(<<"2", "0", "2", "0">>)

Amount(v) == [kind |-> "dict", amount |-> v]
Properties(m, y) == [kind |-> "dict", milage |-> m, firstRegistration |-> y]

RawPrices ==
    {Absent, StrVal(NA), IntVal(30000), Amount(Str30000), Amount(Absent),
     Amount(IntVal(30000))}
RawProperties ==
    {Absent, None, Properties(Absent, Absent), Properties(Str50000km, Absent),
     Properties(Str50000km, Str2021), Properties(Absent, IntVal(2021))}
RawTitles == {Absent, None, StrVal(<<"t">>)}
\* name and link, the older keys of title and url.
RawOlderKeys ==
    {[name |-> Absent, link |-> Absent],
     [name |-> StrVal(<<"n">>), link |-> StrVal(<<"l">>)]}
RawUrls == {Absent, StrVal(<<"u">>)}
RawMileages == {Absent, Str7km}
RawYears == {Absent, Str2020}
\* fuel, transmission and power.
RawTechnical ==
    {[fuel |-> Absent, transmission |-> Absent, power |-> Absent],
     [fuel |-> None, transmission |-> Absent, power |-> Absent],
     [fuel |-> StrVal(<<"f">>), transmission |-> StrVal(<<"m">>),
      power |-> IntVal(150)]}

RawItems ==
    { [kind |-> "dict", title |-> t, name |-> o.name, price |-> p,
       mileage |-> m, year |-> y, url |-> u, link |-> o.link,
       fuel |-> x.fuel, transmission |-> x.transmission, power |-> x.power,
       properties |-> pr] :
        t \in RawTitles, o \in RawOlderKeys, p \in RawPrices,
        m \in RawMileages, y \in RawYears, u \in RawUrls,
        x \in RawTechnical, pr \in RawProperties }

\* A record with nothing but the given price, mileage, year and properties.
Bare(p, m, y, pr) ==
    [kind |-> "dict", title |-> Absent, name |-> Absent, price |-> p,
     mileage |-> m, year |-> y, url |-> Absent, link |-> Absent,
     fuel |-> Absent, transmission |-> Absent, power |-> Absent,
     properties |-> pr]

\* {"price": {"amount": "30000"}, "properties": {"milage": "50.000 km"}}
ScenarioRecord ==
    Bare(Amount(Str30000), Absent, Absent, Properties(Str50000km, Absent))

\* The records of the longer datasets.
FewItems ==
    {ScenarioRecord,
     Bare(Absent, Str7km, Str2020, None),
     Bare(Absent, Absent, Absent, Absent)}

Datasets ==
    {<<i>> : i \in RawItems}
        \cup UNION { [1..n -> FewItems] : n \in 0..MaxListings }

\* The JSON body of a search request: the bounds under the keys the page
\* sends, and under the keys maxPrice and maxMileage.
Bounds(price, mileage) ==
    [modelYear |-> None, mileage |-> mileage, price |-> price]
MaxBounds(maxPrice, maxMileage) ==
    [modelYear |-> None, mileage |-> None, price |-> None,
     maxPrice |-> maxPrice, maxMileage |-> maxMileage]
SearchCriteria ==
    {Bounds(None, None),
     Bounds(IntVal(35000), IntVal(40000)),
     Bounds(IntVal(35000), IntVal(60000)),
     MaxBounds(IntVal(35000), IntVal(40000)),
     MaxBounds(IntVal(35000), IntVal(60000))}

\* The vehicle a former request stored.
Stored ==
    [kind |-> "dict", title |-> StrVal(<<"s">>), url |-> StrVal(<<"u">>)]

InitNormalize ==
    /\ pc \in {"search", "details"}
    /\ dataset \in Datasets
    /\ criteria \in IF pc = "search" THEN SearchCriteria
                    ELSE {Bounds(None, None)}
    /\ listings = <<>>
    /\ filtered = <<>>
    /\ normalized = <<>>
    /\ details = None
    /\ response = None
    /\ \/ vehicles = {} /\ nextId = 1
       \/ pc = "details" /\ vehicles = {Row(1, Stored)} /\ nextId = 2
    /\ calls = <<>>
    /\ started = 0
    /\ NoParse
    /\ NoCalls
    /\ NoRest

SpecNormalize == InitNormalize /\ [][NextNormalize]_vars

(***************************************************************************)
(* Claims on the normalization of search and get_vehicle_details.          *)
(***************************************************************************)
\* The raw records a handler has normalized, each with what it made of it.
Pairs ==
    IF pc = "searched"
    THEN {<<dataset[i], normalized[i]>> : i \in 1..Len(normalized)}
    ELSE IF pc = "answered" /\ IsDict(details) THEN {<<dataset[1], details>>}
    ELSE {}

\* C11: the normalization raises no error: search builds a listing of each
\* record of the dataset, get_vehicle_details builds the details of the
\* record it reads.
C11_NormalizeTotal ==
    /\ pc = "searched" => Len(normalized) = Len(dataset)
    /\ pc = "answered" /\ dataset # <<>> => IsDict(details)

FixedFields ==
    {"title", "price", "mileage", "year", "fuel", "transmission", "power",
     "url"}

\* C12: a listing built by the normalization has each of the fixed fields,
\* none of them None, and "N/A" for a field the raw record does not have.
C12_FieldsNeverNull ==
    \A p \in Pairs : \A f \in FixedFields :
        /\ f \in DOMAIN p[2]
        /\ p[2][f] # None
        /\ Get(p[1], f, StrVal(NA)) = StrVal(NA)
               /\ f \notin {"mileage", "year"} => p[2][f] = StrVal(NA)

\* C13: a field the raw record has is a str in the listing built from it.
C13_Coerced ==
    \A p \in Pairs :
        \A f \in {"title", "price", "fuel", "transmission", "power"} :
            Get(p[1], f, None) # None /\ f \in DOMAIN p[2]
                => p[2][f].kind = "str"

\* C14: the price of the listing is the str of the amount of a dict price
\* ("N/A" when the dict has no amount), and the str of any other price.
C14_PriceExtraction ==
    \A p \in Pairs :
        LET price == Get(p[1], "price", Absent)
        IN  /\ IsDict(price) /\ Get(price, "amount", Absent) # Absent
                => p[2].price = PyStr(price.amount)
            /\ IsDict(price) /\ Get(price, "amount", Absent) = Absent
                => p[2].price = StrVal(NA)
            /\ ~IsDict(price) /\ price # Absent => p[2].price = PyStr(price)

C14_Witness ==
    /\ pc = "searched"
    /\ dataset = <<ScenarioRecord>>
    /\ normalized[1].price = Str30000

\* The value under a key of properties, Absent when there is none.
Nested(raw, key) ==
    IF IsDict(Get(raw, "properties", Absent))
    THEN Get(raw.properties, key, Absent)
    ELSE Absent

\* C15: the mileage of the listing is the nested milage when the raw record
\* has one, and the top-level mileage when it has only that; the same for
\* the year with firstRegistration and the top-level year.
C15_Precedence ==
    \A p \in Pairs :
        /\ Nested(p[1], "milage") # Absent
               => p[2].mileage = PyStr(Nested(p[1], "milage"))
        /\ Nested(p[1], "milage") = Absent /\ p[1].mileage # Absent
               => p[2].mileage = PyStr(p[1].mileage)
        /\ Nested(p[1], "firstRegistration") # Absent
               => p[2].year = PyStr(Nested(p[1], "firstRegistration"))
        /\ Nested(p[1], "firstRegistration") = Absent /\ p[1].year # Absent
               => p[2].year = PyStr(p[1].year)

\* search has normalized the scenario's record and filtered the listing.
ScenarioSearched ==
    /\ pc = "searched"
    /\ dataset = <<ScenarioRecord>>

ScenarioNormalized ==
    /\ Len(normalized) = 1
    /\ normalized[1].price = Str30000
    /\ normalized[1].mileage = Str50000km

Handlers == {"h1", "h2"}

Idle == [pc |-> "idle", vehicle_data |-> None, ret |-> None]

\* The dicts the callers pass (lines 2270, 2339, 2481).
VehicleData ==
    { [kind |-> "dict", title |-> t, url |-> u] :
        t \in {None, StrVal(<<"a">>), StrVal(<<"b">>)},
        u \in {Absent, None, StrVal(<<>>), StrVal(<<"u">>), StrVal(<<"v">>)} }

InitUpsert ==
    /\ pc = "serving"
    /\ vehicles = {}
    /\ nextId = 1
    /\ calls = [h \in Handlers |-> Idle]
    /\ started = 0
    /\ NoParse
    /\ NoFilter
    /\ NoSearch
    /\ NoCalls
    /\ NoRest

\* Line 150: a handler that is not in a call makes one.
StartSave(h) ==
    /\ calls[h].pc \in {"idle", "returned"}
    /\ started < MaxCalls
    /\ \E vehicle_data \in VehicleData :
           calls' = [calls EXCEPT ![h] = [pc |-> "select",
                                          vehicle_data |-> vehicle_data,
                                          ret |-> None]]
    /\ started' = started + 1
    /\ UNCHANGED <<pc, vehicles, nextId, parseVars, filterVars, searchVars,
                   fcalls, restVars>>

\* Lines 155-166: the SELECT, and the return of the id it finds.
SelectVehicle(h) ==
    /\ calls[h].pc = "select"
    /\ LET existing == Existing(vehicles, calls[h].vehicle_data)
       IN  calls' = [calls EXCEPT ![h] =
                        IF existing # Absent
                        THEN [@ EXCEPT !.pc = "returned", !.ret = existing]
                        ELSE [@ EXCEPT !.pc = "insert"]]
    /\ UNCHANGED <<pc, vehicles, nextId, started, parseVars, filterVars,
                   searchVars, fcalls, restVars>>

\* Lines 168-212: the INSERT and its commit, or the except branch.
InsertVehicle(h) ==
    /\ calls[h].pc = "insert"
    /\ IF InsertRaises(vehicles, calls[h].vehicle_data)
       THEN /\ calls' = [calls EXCEPT ![h].pc = "returned", ![h].ret = None]
            /\ UNCHANGED <<vehicles, nextId>>
       ELSE /\ vehicles' = vehicles \cup {Row(nextId, calls[h].vehicle_data)}
            /\ nextId' = nextId + 1
            /\ calls' = [calls EXCEPT ![h].pc = "returned",
                                      ![h].ret = IntVal(nextId)]
    /\ UNCHANGED <<pc, started, parseVars, filterVars, searchVars, fcalls,
                   restVars>>

NextUpsert ==
    \E h \in Handlers : StartSave(h) \/ SelectVehicle(h) \/ InsertVehicle(h)

SpecUpsert == InitUpsert /\ [][NextUpsert]_vars

\* The rows of a url.
RowsOf(url) == { r \in vehicles : r.url = url }

\* No two rows have the same url that is not empty.
OneRowPerUrl ==
    \A r1, r2 \in vehicles :
        r1.url = r2.url /\ Truthy(r1.url) => r1 = r2

\* A call whose url is the url of a row passes its SELECT by returning the
\* id of that row, the table as it was.
ReturnsExisting(h) ==
    LET url == UrlOf(calls[h].vehicle_data)
    IN  calls[h].pc = "select" /\ calls'[h].pc # "select"
            /\ Truthy(url) /\ RowsOf(url) # {}
        => /\ calls'[h].pc = "returned"
           /\ \E r \in RowsOf(url) : calls'[h].ret = r.id
           /\ vehicles' = vehicles

\* C17: at most one row per url that is not empty, whatever calls of
\* save_vehicle_to_db were made; a call with the url of a stored vehicle
\* returns the id of that vehicle and leaves the vehicles table as it is.
C17_IdempotentUpsert ==
    /\ []OneRowPerUrl
    /\ [][\A h \in Handlers : ReturnsExisting(h)]_vars

C17_Witness ==
    \E h \in Handlers :
        /\ calls[h].pc = "returned"
        /\ UrlOf(calls[h].vehicle_data) = StrVal(<<"u">>)
        /\ started = 2
        /\ Cardinality(vehicles) = 1
        /\ \E r \in vehicles :
              r.url = StrVal(<<"u">>) /\ r.id = calls[h].ret
                  /\ r.title # Text(calls[h].vehicle_data.title)

\* C18: two calls for the same url that is not empty, with their steps in
\* any order, leave exactly one row of that url and both return its id.
C18_BothReturnId ==
    \A h1, h2 \in Handlers :
        /\ h1 # h2
        /\ calls[h1].pc = "returned" /\ calls[h2].pc = "returned"
        /\ calls[h1].vehicle_data.title # None
        /\ calls[h2].vehicle_data.title # None
        /\ Truthy(UrlOf(calls[h1].vehicle_data))
        /\ UrlOf(calls[h1].vehicle_data) = UrlOf(calls[h2].vehicle_data)
        => /\ Cardinality(RowsOf(UrlOf(calls[h1].vehicle_data))) = 1
           /\ \A r \in RowsOf(UrlOf(calls[h1].vehicle_data)) :
                  calls[h1].ret = r.id /\ calls[h2].ret = r.id

(***************************************************************************)
(* filter_listings called by request handlers that run at the same time:   *)
(* each call goes through its loop one listing at a time.                  *)
(***************************************************************************)
CallItems ==
    {[year |-> <<"1">>, mileage |-> NA, price |-> <<>>],
     [year |-> <<"x">>, mileage |-> <<"3", " ", "k", "m">>, price |-> <<>>],
     [year |-> <<>>, mileage |-> <<"2">>, price |-> <<"3">>]}

CallCriteria ==
    {[modelYear |-> IntVal(2), mileage |-> None, price |-> StrVal(<<>>)],
     [modelYear |-> None, mileage |-> IntVal(2), price |-> StrVal(<<"2">>)]}

\* Line 2155: a call at the start of its loop, i listings done.
CallsAtEntry ==
    { [pc |-> "loop", listings |-> l, criteria |-> c, i |-> 0,
       filtered |-> <<>>] :
        l \in UNION { [1..n -> CallItems] : n \in 0..MaxListings },
        c \in CallCriteria }

InitCalls ==
    /\ pc = "filtering"
    /\ fcalls \in [Handlers -> CallsAtEntry]
    /\ NoParse
    /\ NoFilter
    /\ NoSearch
    /\ NoDb
    /\ NoRest

\* The list of every call is the list of the first handler's call.
FilteredOfShared(fc, h) == fc["h1"].filtered

\* Line 2155: filtered is a local of the call.
FilteredOf(fc, h) == fc[h].filtered

\* Lines 2157-2199: one iteration of the loop of the call of h.
FilterIterate(h) ==
    /\ fcalls[h].pc = "loop"
    /\ fcalls[h].i < Len(fcalls[h].listings)
    /\ fcalls' = [fcalls EXCEPT
                     ![h].i = @ + 1,
                     ![h].filtered =
                         Step(FilteredOf(fcalls, h),
                              fcalls[h].listings[fcalls[h].i + 1],
                              fcalls[h].criteria)]
    /\ UNCHANGED <<pc, parseVars, filterVars, searchVars, dbVars, restVars>>

\* Line 2201: return filtered
FilterReturn(h) ==
    /\ fcalls[h].pc = "loop"
    /\ fcalls[h].i = Len(fcalls[h].listings)
    /\ fcalls' = [fcalls EXCEPT ![h].pc = "returned",
                                ![h].filtered = FilteredOf(fcalls, h)]
    /\ UNCHANGED <<pc, parseVars, filterVars, searchVars, dbVars, restVars>>

NextCalls == \E h \in Handlers : FilterIterate(h) \/ FilterReturn(h)

SpecCalls == InitCalls /\ [][NextCalls]_vars

\* C19: a call of filter_listings leaves its listings and its criteria as
\* they are; what it returns is what the arguments alone give, whatever the
\* other handler's call does meanwhile; calls with equal arguments return
\* equal lists.
C19_Pure ==
    /\ [][\A h \in Handlers :
              /\ fcalls'[h].listings = fcalls[h].listings
              /\ fcalls'[h].criteria = fcalls[h].criteria]_vars
    /\ [](\A h \in Handlers :
              fcalls[h].pc = "returned" =>
                  fcalls[h].filtered =
                      filter_listings(fcalls[h].listings, fcalls[h].criteria))
    /\ [](\A h1, h2 \in Handlers :
              /\ fcalls[h1].pc = "returned" /\ fcalls[h2].pc = "returned"
              /\ fcalls[h1].listings = fcalls[h2].listings
              /\ fcalls[h1].criteria = fcalls[h2].criteria
              => fcalls[h1].filtered = fcalls[h2].filtered)

C19_Witness ==
    /\ \A h \in Handlers : fcalls[h].pc = "returned"
    /\ fcalls["h1"].listings = fcalls["h2"].listings
    /\ fcalls["h1"].criteria = fcalls["h2"].criteria
    /\ Len(fcalls["h1"].listings) = 2
    /\ Len(fcalls["h1"].filtered) = 1
    /\ fcalls["h1"].filtered = fcalls["h2"].filtered

\* C20: the bounds are applied one by one: a listing whose year is not an
\* integer is still excluded when its mileage is above the maximum mileage
\* or its price above the maximum price.
C20_BoundsIndependent ==
    Returned =>
        \A i \in 1..Len(listings) :
            /\ YearNotInteger(listings[i])
            /\ ViolatesMileage(listings[i]) \/ ViolatesPrice(listings[i])
            => Excluded(i)

(***************************************************************************)
(* Further properties of filter_listings on one listing (SpecItem).        *)
(***************************************************************************)
\* The evaluation of the listing raises nothing.
NoRaise(item) == Evaluate(item, criteria) # "except"

\* C21: a bound that is present is applied to a field that parsed, the
\* integer 0 counting as a present bound and as a parsed value: a listing
\* below the minimum year (a year 0 too) or above the maximum mileage or
\* price (a maximum of 0 too) is left out.
C21_ZeroCounts ==
    Returned =>
        \A i \in 1..Len(listings) :
            /\ NoRaise(listings[i])
            /\ \/ ViolatesYear(listings[i])
               \/ ViolatesMileage(listings[i])
               \/ ViolatesPrice(listings[i])
            => Excluded(i)

\* The part of a year string after its last '/', the whole string when it
\* has none.
TrailingComponent(s) ==
    LET slashes == { k \in 1..Len(s) : s[k] = "/" }
    IN  IF slashes = {} THEN s
        ELSE SubSeq(s, (CHOOSE k \in slashes : \A j \in slashes : j <= k) + 1,
                    Len(s))

\* The trailing component of the listing's year is a decimal integer, not 0,
\* below the present minimum year.
TrailingYearBelow(item) ==
    /\ item.year # <<>> /\ item.year # NA
    /\ TrailingComponent(item.year) # <<>>
    /\ AllDecimal(TrailingComponent(item.year))
    /\ DecimalValue(TrailingComponent(item.year)) # 0
    /\ Truthy(criteria.modelYear) /\ Parsed(IntOf(criteria.modelYear))
    /\ DecimalValue(TrailingComponent(item.year))
           < IntOf(criteria.modelYear).val

\* C22: the year of a listing is the integer after the last '/' of the year
\* string, the integer of the whole string when there is no '/': a listing
\* that no mileage or price bound excludes is left out exactly when that
\* integer is below the minimum year; with an empty or "N/A" year the
\* minimum year is not applied.
C22_YearParsing ==
    Returned =>
        \A i \in 1..Len(listings) :
            /\ NoRaise(listings[i])
                   /\ ~ViolatesMileage(listings[i])
                   /\ ~ViolatesPrice(listings[i])
               => (Excluded(i) <=> TrailingYearBelow(listings[i]))
            /\ listings[i].year \in {<<>>, NA}
                   /\ ~ViolatesMileage(listings[i])
                   /\ ~ViolatesPrice(listings[i])
               => Retained(i)

C22_Witness ==
    /\ Returned
    /\ Len(listings) = 1
    /\ listings[1].year = <<"6", "/", "1">>
    /\ criteria.modelYear = IntVal(2)
    /\ filtered = <<>>

(***************************************************************************)
(* Further properties of the normalization (SpecNormalize).                *)
(***************************************************************************)
RECURSIVE NormalizedAlone(_)
\* The listings of the records of items whose normalization raises nothing,
\* each record normalized by itself.
NormalizedAlone(items) ==
    IF items = <<>> THEN <<>>
    ELSE IF NormalizeSearch(Head(items)) = AttributeError
         THEN NormalizedAlone(Tail(items))
         ELSE <<NormalizeSearch(Head(items))>> \o NormalizedAlone(Tail(items))

\* C23: search normalizes each record of the dataset by itself: a record
\* whose normalization raises is the only one without a listing, the
\* listings of the records before and after it go to the filter.
C23_RecordIsolation ==
    pc = "searched" =>
        /\ normalized = NormalizedAlone(dataset)
        /\ Len(listings) = Len(normalized)

\* The price, mileage and year of two listings are the same.
SameFigures(l1, l2) ==
    l1.price = l2.price /\ l1.mileage = l2.mileage /\ l1.year = l2.year

\* C24: search and get_vehicle_details give the same price, mileage and
\* year for the same record.
C24_PathsAgree ==
    \A p \in Pairs :
        /\ pc = "searched" =>
               /\ IsDict(NormalizeDetails(p[1], RequestUrl))
               /\ SameFigures(p[2], NormalizeDetails(p[1], RequestUrl))
        /\ pc = "answered" =>
               /\ IsDict(NormalizeSearch(p[1]))
               /\ SameFigures(p[2], NormalizeSearch(p[1]))

(***************************************************************************)
(* validate_email, the offers table, and the requests that write offers    *)
(* and vehicles: create_offer, api_update_offer, api_delete_offer and      *)
(* api_delete_vehicle.  "nl" is the newline character.                     *)
(***************************************************************************)
Letters ==
    {"a", "b", "c", "d", "e", "f", "g", "h", "i", "j", "k", "l", "m", "n",
     "o", "p", "q", "r", "s", "t", "u", "v", "w", "x", "y", "z",
     "A", "B", "C", "D", "E", "F", "G", "H", "I", "J", "K", "L", "M", "N",
     "O", "P", "Q", "R", "S", "T", "U", "V", "W", "X", "Y", "Z"}

\* Line 72: [a-zA-Z0-9._%+-] and [a-zA-Z0-9.-]
LocalClass == Letters \cup DecimalDigits \cup {".", "_", "%", "+", "-"}
DomainClass == Letters \cup DecimalDigits \cup {".", "-"}

\* The positions where '$' matches: the end of the string, and before a
\* newline that ends it.
EndPositions(s) ==
    {Len(s)} \cup (IF s # <<>> /\ s[Len(s)] = "nl" THEN {Len(s) - 1} ELSE {})

\* MatchesPattern without the test of the part after the last dot.
MatchesPatternAnyTld(s) ==
    \E at \in 1..Len(s), end \in EndPositions(s) :
        /\ at > 1
        /\ \A i \in 1..(at - 1) : s[i] \in LocalClass
        /\ s[at] = "@"
        /\ end > at
        /\ \A i \in (at + 1)..end : s[i] \in DomainClass

\* Lines 72-73: re.match of
\* ^[a-zA-Z0-9._%+-]+@[a-zA-Z0-9.-]+\.[a-zA-Z]{2,}$
\* s[1..at-1] is the local part, s[at+1..dot-1] the domain before the last
\* dot, s[dot+1..end] the letters after it.
MatchesPattern(s) ==
    \E at \in 1..Len(s), dot \in 1..Len(s), end \in EndPositions(s) :
        /\ at > 1
        /\ \A i \in 1..(at - 1) : s[i] \in LocalClass
        /\ s[at] = "@"
        /\ dot > at + 1
        /\ \A i \in (at + 1)..(dot - 1) : s[i] \in DomainClass
        /\ s[dot] = "."
        /\ end >= dot + 2
        /\ \A i \in (dot + 1)..end : s[i] \in Letters

\* Lines 70-73: re.match raises TypeError for an email that is no str.
EmailRaises(email) == email.kind # "str"
validate_email(email) == ~EmailRaises(email) /\ MatchesPattern(email.str)

OfferColumns == {"client_email", "client_name", "offered_price", "notes"}

\* The row of the INSERT of lines 222-246.
OfferRow(id, offer_data) ==
    [c \in OfferColumns \cup {"id", "vehicle_id"} |->
        IF c = "id" THEN IntVal(id)
        ELSE IF c = "vehicle_id" THEN Get(offer_data, c, None)
        ELSE Text(Get(offer_data, c, None))]

\* A column that is NOT NULL gets no value (lines 135-139).
NullViolation(data, columns) ==
    \E c \in columns : Get(data, c, None) = None

\* Line 111: FOREIGN KEY (vehicle_id) REFERENCES vehicles (id).  PostgreSQL
\* enforces it; SQLite does not unless PRAGMA foreign_keys is set, which no
\* connection of the program does.
ForeignKeyViolation(type, rows, vehicle_id) ==
    type = "postgres" /\ \A v \in rows : v.id # vehicle_id

\* The INSERT of save_offer_to_db raises.
OfferInsertRaises(type, rows, offer_data) ==
    \/ NullViolation(offer_data,
                     {"vehicle_id", "client_email", "offered_price"})
    \/ ForeignKeyViolation(type, rows, Get(offer_data, "vehicle_id", None))

\* Lines 2324-2334: vehicle_dict
VehicleDict(vehicle_data) ==
    [kind |-> "dict",
     title |-> Get(vehicle_data, "title", StrVal(NA)),
     price |-> Get(vehicle_data, "price", StrVal(NA)),
     mileage |-> Get(vehicle_data, "mileage", StrVal(NA)),
     year |-> Get(vehicle_data, "year", StrVal(NA)),
     fuel |-> Get(vehicle_data, "fuel", StrVal(NA)),
     transmission |-> Get(vehicle_data, "transmission", StrVal(NA)),
     power |-> Get(vehicle_data, "power", StrVal(NA)),
     url |-> Get(vehicle_data, "url", StrVal(<<>>)),
     properties |-> Get(vehicle_data, "properties", EmptyDict)]

\* Lines 2348-2354: offer_dict
OfferDict(vehicle_id, data) ==
    [kind |-> "dict",
     vehicle_id |-> vehicle_id,
     client_email |-> Get(data, "client_email", None),
     client_name |-> Get(data, "client_name", None),
     offered_price |-> Get(data, "offered_price", None),
     notes |-> Get(data, "notes", None)]

\* Line 2314: not vehicle_data: no key, null, or an empty dict
NoVehicleData(vehicle_data) ==
    \/ vehicle_data = None
    \/ IsDict(vehicle_data)
           /\ \A k \in DOMAIN vehicle_data \ {"kind"} : vehicle_data[k] = Absent
    \/ ~IsDict(vehicle_data) /\ ~Truthy(vehicle_data)

\* Emails of the requests: one that validate_email accepts, one that it
\* rejects.
GoodEmail == StrVal(<<"a", "@", "b", ".", "c", "o">>)
BadEmail == StrVal(<<"a", "@", "b">>)

\* vehicle_data of the create_offer requests: with a url, without one.
OfferVehicles ==
    {[kind |-> "dict", title |-> StrVal(<<"a">>), url |-> StrVal(<<"u">>)],
     [kind |-> "dict", title |-> StrVal(<<"a">>), url |-> Absent],
     [kind |-> "dict", title |-> StrVal(<<"b">>), url |-> Absent]}

\* The JSON bodies of create_offer (lines 2304-2309).
CreateRequests ==
    { [kind |-> "dict", vehicle_data |-> v, client_email |-> e,
       client_name |-> Absent, offered_price |-> p, notes |-> Absent] :
        v \in OfferVehicles \cup {Absent},
        e \in {GoodEmail, BadEmail, Absent},
        p \in {IntVal(5), Absent} }

\* The JSON bodies of api_update_offer.
UpdateRequests ==
    { [kind |-> "dict", client_email |-> e, client_name |-> Absent,
       offered_price |-> p, notes |-> Absent] :
        e \in {GoodEmail, BadEmail, Absent}, p \in {IntVal(6), Absent} }

\* A handler that serves no request.
NoRequest ==
    [pc |-> "idle", data |-> None, vehicle_id |-> None, inserted |-> FALSE,
     success |-> FALSE]

InitOffers ==
    /\ pc = "serving"
    /\ db_type \in {"postgres", "sqlite"}
    /\ vehicles = {}
    /\ nextId = 1
    /\ offers = {}
    /\ nextOfferId = 1
    /\ requests = [h \in Handlers |-> NoRequest]
    /\ served = 0
    /\ calls = <<>>
    /\ started = 0
    /\ NoParse
    /\ NoFilter
    /\ NoSearch
    /\ NoCalls
    /\ NoCrawl
    /\ NoMail

\* The request of h is answered: success tells which answer.
Answer(h, success) ==
    [requests EXCEPT ![h].pc = "answered", ![h].success = success]

\* create_offer, lines 2302-2321: the body is read and checked.
CreateOffer(h) ==
    /\ requests[h].pc \in {"idle", "answered"}
    /\ served < MaxRequests
    /\ served' = served + 1
    /\ \E data \in CreateRequests :
          LET vehicle_data == Get(data, "vehicle_data", None)
              client_email == Get(data, "client_email", None)
              taken == [pc |-> "select", data |-> data, vehicle_id |-> None,
                        inserted |-> FALSE, success |-> FALSE]
          IN  requests' =
                  [requests EXCEPT ![h] =
                      IF \/ NoVehicleData(vehicle_data)
                         \/ ~IsDict(vehicle_data)
                         \/ EmailRaises(client_email)
                         \/ ~validate_email(client_email)
                      THEN [taken EXCEPT !.pc = "answered"]
                      ELSE taken]
    /\ UNCHANGED <<pc, db_type, vehicles, nextId, offers, nextOfferId, calls,
                   started, parseVars, filterVars, searchVars, fcalls,
                   crawlVars, mailVars>>

\* The vehicle_dict of the request of h.
VehicleDictOf(h) == VehicleDict(requests[h].data.vehicle_data)

\* create_offer, line 2339, save_vehicle_to_db lines 155-166: the SELECT.
CreateOfferSelect(h) ==
    /\ requests[h].pc = "select"
    /\ LET existing == Existing(vehicles, VehicleDictOf(h))
       IN  requests' = [requests EXCEPT ![h] =
                           IF existing # Absent
                           THEN [@ EXCEPT !.pc = "offer",
                                          !.vehicle_id = existing]
                           ELSE [@ EXCEPT !.pc = "insert"]]
    /\ UNCHANGED <<pc, db_type, vehicles, nextId, offers, nextOfferId, served,
                   calls, started, parseVars, filterVars, searchVars, fcalls,
                   crawlVars, mailVars>>

\* create_offer, lines 2339-2346, save_vehicle_to_db lines 168-212: the
\* INSERT of the vehicle; without a vehicle id the answer is the error 500.
CreateOfferInsert(h) ==
    /\ requests[h].pc = "insert"
    /\ IF InsertRaises(vehicles, VehicleDictOf(h))
       THEN /\ requests' = Answer(h, FALSE)
            /\ UNCHANGED <<vehicles, nextId>>
       ELSE /\ vehicles' = vehicles \cup {Row(nextId, VehicleDictOf(h))}
            /\ nextId' = nextId + 1
            /\ requests' = [requests EXCEPT ![h].pc = "offer",
                                            ![h].vehicle_id = IntVal(nextId),
                                            ![h].inserted = TRUE]
    /\ UNCHANGED <<pc, db_type, offers, nextOfferId, served, calls, started,
                   parseVars, filterVars, searchVars, fcalls,
                   crawlVars, mailVars>>

\* create_offer, lines 2348-2366, save_offer_to_db: the INSERT of the offer
\* and the answer.
CreateOfferSave(h) ==
    /\ requests[h].pc = "offer"
    /\ LET offer_dict == OfferDict(requests[h].vehicle_id, requests[h].data)
       IN  IF OfferInsertRaises(db_type, vehicles, offer_dict)
           THEN /\ requests' = Answer(h, FALSE)
                /\ UNCHANGED <<offers, nextOfferId>>
           ELSE /\ offers' = offers \cup {OfferRow(nextOfferId, offer_dict)}
                /\ nextOfferId' = nextOfferId + 1
                /\ requests' = Answer(h, TRUE)
    /\ UNCHANGED <<pc, db_type, vehicles, nextId, served, calls, started,
                   parseVars, filterVars, searchVars, fcalls,
                   crawlVars, mailVars>>

\* api_delete_vehicle, delete_vehicle (lines 461-483): the offers of the
\* vehicle and the vehicle go in one transaction.
DeleteVehicle ==
    /\ served < MaxRequests
    /\ served' = served + 1
    /\ \E vehicle_id \in 1..nextId :
          /\ offers' = { o \in offers : o.vehicle_id # IntVal(vehicle_id) }
          /\ vehicles' = { v \in vehicles : v.id # IntVal(vehicle_id) }
    /\ UNCHANGED <<pc, db_type, nextId, nextOfferId, requests, calls, started,
                   parseVars, filterVars, searchVars, fcalls,
                   crawlVars, mailVars>>

\* api_delete_offer, delete_offer (lines 485-501)
DeleteOffer ==
    /\ served < MaxRequests
    /\ served' = served + 1
    /\ \E offer_id \in 1..nextOfferId :
          offers' = { o \in offers : o.id # IntVal(offer_id) }
    /\ UNCHANGED <<pc, db_type, vehicles, nextId, nextOfferId, requests, calls,
                   started, parseVars, filterVars, searchVars, fcalls,
                   crawlVars, mailVars>>

\* The row of an offer after the UPDATE of lines 429-453.
Updated(o, data) ==
    [o EXCEPT !.client_email = Text(Get(data, "client_email", None)),
              !.client_name = Text(Get(data, "client_name", None)),
              !.offered_price = Text(Get(data, "offered_price", None)),
              !.notes = Text(Get(data, "notes", None))]

\* api_update_offer, update_offer (lines 423-459): the UPDATE raises when a
\* NOT NULL column gets no value and a row is there to change.
UpdateOffer ==
    /\ served < MaxRequests
    /\ served' = served + 1
    /\ \E offer_id \in 1..nextOfferId, data \in UpdateRequests :
          offers' =
              IF NullViolation(data, {"client_email", "offered_price"})
              THEN offers
              ELSE { IF o.id = IntVal(offer_id) THEN Updated(o, data) ELSE o :
                       o \in offers }
    /\ UNCHANGED <<pc, db_type, vehicles, nextId, nextOfferId, requests, calls,
                   started, parseVars, filterVars, searchVars, fcalls,
                   crawlVars, mailVars>>

NextOffers ==
    \/ \E h \in Handlers :
          \/ CreateOffer(h)
          \/ CreateOfferSelect(h)
          \/ CreateOfferInsert(h)
          \/ CreateOfferSave(h)
    \/ DeleteVehicle
    \/ DeleteOffer
    \/ UpdateOffer

SpecOffers == InitOffers /\ [][NextOffers]_vars

(***************************************************************************)
(* Properties of the requests on offers and vehicles (SpecOffers).         *)
(***************************************************************************)
\* C25: every stored offer is the offer of a stored vehicle, however the
\* steps of create_offer, delete_vehicle and delete_offer interleave.
C25_ReferentialIntegrity ==
    \A o \in offers : \E v \in vehicles : v.id = o.vehicle_id

\* The vehicle row that the request of h has inserted is in rows.
HoldsInserted(h, reqs, rows) ==
    reqs[h].inserted /\ \E v \in rows : v.id = reqs[h].vehicle_id

\* C26: a create_offer request that is answered with an error leaves no
\* trace: the step that answers stores nothing, and the vehicles table does
\* not hold a row the request has inserted.
C26_AllOrNothing ==
    [][\A h \in Handlers :
          requests[h].pc # "answered" /\ requests'[h].pc = "answered"
              /\ ~requests'[h].success
          => /\ vehicles' = vehicles
             /\ offers' = offers
             /\ ~HoldsInserted(h, requests', vehicles')]_vars

\* C27: every stored offer has a client_email that validate_email accepts.
C27_EmailValid == \A o \in offers : validate_email(o.client_email)

\* The request of h has a valid email, an offered price, and vehicle data
\* without a url.
WithoutUrl(h) ==
    /\ IsDict(requests[h].data)
    /\ IsDict(requests[h].data.vehicle_data)
    /\ Get(requests[h].data.vehicle_data, "url", Absent) = Absent
    /\ validate_email(requests[h].data.client_email)
    /\ Get(requests[h].data, "offered_price", None) # None

\* The vehicle of the request of h was deleted while the request ran.
VehicleDeleted(h) ==
    /\ requests[h].vehicle_id # None
    /\ \A v \in vehicles : v.id # requests[h].vehicle_id

\* C28: a create_offer request with a valid email, an offered price and
\* vehicle data without a url succeeds (unless its vehicle is deleted while
\* it runs), whatever vehicles without a url are stored already.
C28_NoUrlNeeded ==
    \A h \in Handlers :
        requests[h].pc = "answered" /\ WithoutUrl(h)
            => requests[h].success \/ VehicleDeleted(h)

(***************************************************************************)
(* crawl_batch of src/fastapi_app.py.  The crawler is the library's: what  *)
(* arun_many returns for the urls is an input, one result per url, each a  *)
(* success or a failure.  The url number i is <<"u", i>>.                  *)
(***************************************************************************)
\* Line 132: the most urls a batch may have.
MaxBatch == 10

UrlLists == { [i \in 1..n |-> <<"u", i>>] : n \in 0..MaxUrls }

Crawled(url) ==
    [url |-> url, success |-> TRUE, status_code |-> 200,
     error_message |-> <<>>]
NotCrawled(url) ==
    [url |-> url, success |-> FALSE, status_code |-> 0,
     error_message |-> <<"e">>]

\* Lines 146-149: the results arun_many may return for the urls.
CrawlResults(us) ==
    { [i \in 1..Len(us) |-> IF i \in ok THEN Crawled(us[i])
                            ELSE NotCrawled(us[i])] :
        ok \in SUBSET (1..Len(us)) }

\* Lines 64-93: process_result, of which the url and the status code are
\* kept (the other keys are texts and links of the page).
process_result(result_) ==
    [url |-> result_.url, status_code |-> result_.status_code]

\* Whether an entry of the response is the entry of a failed crawl.
IsErrorEntry(entry) == "error" \in DOMAIN entry /\ entry.error

\* Lines 156-160: the entry of a failed crawl.
ErrorEntry(result_) ==
    [error |-> TRUE,
     message |-> <<"Failed to crawl ", result_.url, ": ",
                   result_.error_message>>,
     url |-> result_.url]

RECURSIVE ProcessedSkipFailed(_, _)
\* Processed without the else branch: a failed crawl gets no entry.
ProcessedSkipFailed(rest, processed_results) ==
    IF rest = <<>> THEN processed_results
    ELSE ProcessedSkipFailed(Tail(rest),
             IF Head(rest).success
             THEN Append(processed_results, process_result(Head(rest)))
             ELSE processed_results)

RECURSIVE Processed(_, _)
\* Lines 151-160: the loop over the results, from the results left and the
\* entries so far.
Processed(rest, processed_results) ==
    IF rest = <<>> THEN processed_results
    ELSE Processed(Tail(rest),
             Append(processed_results,
                    IF Head(rest).success THEN process_result(Head(rest))
                    ELSE ErrorEntry(Head(rest))))

InitCrawl ==
    /\ pc = "crawl"
    /\ urls \in UrlLists
    /\ results = <<>>
    /\ batch = None
    /\ crawls = 0
    /\ NoParse
    /\ NoFilter
    /\ NoSearch
    /\ NoDb
    /\ NoCalls
    /\ NoOffers
    /\ NoMail

\* crawl_batch, lines 127-162
CrawlBatchCall ==
    /\ pc = "crawl"
    /\ pc' = "crawled"
    /\ IF Len(urls) > MaxBatch
       THEN /\ batch' = [status_code |-> 400, results |-> <<>>, total |-> 0]
            /\ UNCHANGED <<results, crawls>>
       ELSE /\ crawls' = crawls + 1
            /\ results' \in CrawlResults(urls)
            /\ batch' = [status_code |-> 200,
                         results |-> Processed(results', <<>>),
                         total |-> Len(Processed(results', <<>>))]
    /\ UNCHANGED <<urls, parseVars, filterVars, searchVars, dbVars, fcalls,
                   offerVars, mailVars>>

NextCrawl == CrawlBatchCall

SpecCrawl == InitCrawl /\ [][NextCrawl]_vars

\* C29: a batch of more than 10 urls is answered 400 and no crawl is
\* started; a batch of at most 10 is answered with one entry per result, in
\* the order of the results, an error entry for a failed crawl, and total is
\* the number of entries.
C29_Batch ==
    pc = "crawled" =>
        IF Len(urls) > MaxBatch
        THEN batch.status_code = 400 /\ crawls = 0 /\ results = <<>>
        ELSE /\ batch.status_code = 200
             /\ crawls = 1
             /\ Len(batch.results) = Len(results)
             /\ batch.total = Len(batch.results)
             /\ \A i \in 1..Len(results) :
                   /\ batch.results[i].url = results[i].url
                   /\ IsErrorEntry(batch.results[i]) = ~results[i].success

C29_Witness ==
    /\ pc = "crawled"
    /\ Len(urls) = MaxBatch
    /\ batch.total = MaxBatch
    /\ IsErrorEntry(batch.results[1])
    /\ ~IsErrorEntry(batch.results[2])

\* The batch of 11 urls is refused.
C29_WitnessRefused ==
    pc = "crawled" /\ Len(urls) = MaxBatch + 1 /\ batch.status_code = 400

(***************************************************************************)
(* execute_car_search and get_listings of                                  *)
(* src/web_scraping_action_executor_multi.py.  The scrapers and the email  *)
(* client are other modules: what a source search returns or that it       *)
(* raises, and whether send_email raises, are inputs.  log is the order of *)
(* the calls of get_listings and send_email.  params is what the search    *)
(* form posts: a number or nothing for maxPrice.                           *)
(***************************************************************************)
OtherEmail == StrVal(<<"c", "@", "d", ".", "e", "u">>)

\* Line 77: the sources searched when none is given.
DefaultSources == {"automaritea", "autoscout24"}

\* What a source search does: it raises, or it returns listings.
Raised == [raised |-> TRUE, listings |-> <<>>]
Found(found) == [raised |-> FALSE, listings |-> found]
AutomariteaOutcomes == {Raised, Found(<<>>), Found(<<"m1">>)}
AutoscoutOutcomes == {Raised, Found(<<>>), Found(<<"s1">>)}

\* Lines 64-120: get_listings, from the sources asked for, whether the
\* Piloterr scraper was initialized, and what each search does.
get_listings(sources, piloterr_scraper, automaritea, autoscout24) ==
    LET asked == IF sources = None THEN DefaultSources ELSE sources.items
        first == IF "automaritea" \in asked THEN automaritea.listings
                 ELSE <<>>
    IN  IF "automaritea" \in asked /\ automaritea.raised THEN <<>>
        ELSE IF "autoscout24" \in asked /\ piloterr_scraper
                  /\ ~autoscout24.raised
             THEN first \o autoscout24.listings
             ELSE first

\* The recipient is the argument only: the instance default is not used.
RecipientArgument(recipient_email, self_recipient_email) == recipient_email

\* Line 136: recipient_email or self.recipient_email
Recipient(recipient_email, self_recipient_email) ==
    IF Truthy(recipient_email) THEN recipient_email ELSE self_recipient_email

\* Lines 188-258: _format_email_body, of which the number of vehicles found
\* is kept ("No vehicles found" for 0).
FormatEmailBody(found, params) ==
    [found |-> Len(found),
     maxPrice |-> IF Truthy(Get(params, "maxPrice", None))
                  THEN Get(params, "maxPrice", None) ELSE None]

MailParams ==
    { [kind |-> "dict", maxPrice |-> p] : p \in {Absent, None, IntVal(5)} }

\* The calls of execute_car_search.
MailCalls ==
    [recipient_email : {None, StrVal(<<>>), GoodEmail},
     self_recipient_email : {None, OtherEmail},
     sources : {None} \cup
               { [kind |-> "list", items |-> s] : s \in SUBSET DefaultSources },
     piloterr_scraper : BOOLEAN,
     params : MailParams,
     email : {None},
     listings : {<<>>},
     returned : {None}]

InitMail ==
    /\ pc = "execute"
    /\ search \in MailCalls
    /\ log = <<>>
    /\ NoParse
    /\ NoFilter
    /\ NoSearch
    /\ NoDb
    /\ NoCalls
    /\ NoOffers
    /\ NoCrawl

MailUnchanged ==
    UNCHANGED <<parseVars, filterVars, searchVars, dbVars, fcalls, offerVars,
                crawlVars>>

\* execute_car_search, lines 134-141: the recipient.
ExecuteCarSearch ==
    /\ pc = "execute"
    /\ LET email == Recipient(search.recipient_email,
                              search.self_recipient_email)
       IN  IF ~Truthy(email)
           THEN /\ search' = [search EXCEPT !.returned = FALSE]
                /\ pc' = "returned"
           ELSE /\ search' = [search EXCEPT !.email = email]
                /\ pc' = "listing"
    /\ UNCHANGED log
    /\ MailUnchanged

\* execute_car_search, lines 144-146: the listings.
GetListings ==
    /\ pc = "listing"
    /\ \E automaritea \in AutomariteaOutcomes,
          autoscout24 \in AutoscoutOutcomes :
          /\ search' = [search EXCEPT !.listings =
                            get_listings(search.sources,
                                         search.piloterr_scraper,
                                         automaritea, autoscout24)]
          /\ log' = Append(log, [call |-> "get_listings",
                                 automaritea |-> automaritea,
                                 autoscout24 |-> autoscout24])
    /\ pc' = "sending"
    /\ MailUnchanged

\* execute_car_search, lines 149-164: the email and the value returned.
SendEmail ==
    /\ pc = "sending"
    /\ \E completed \in BOOLEAN :
          /\ log' = Append(log, [call |-> "send_email",
                                 to |-> search.email,
                                 body |-> FormatEmailBody(search.listings,
                                                          search.params),
                                 completed |-> completed])
          /\ search' = [search EXCEPT !.returned = completed]
    /\ pc' = "returned"
    /\ MailUnchanged

NextMail ==
    \/ ExecuteCarSearch
    \/ GetListings
    \/ SendEmail

SpecMail == InitMail /\ [][NextMail]_vars

\* The calls of get_listings and of send_email made so far.
Calls(name) == { i \in 1..Len(log) : log[i].call = name }

\* Whether the call has a recipient: the argument or the instance default.
HasRecipient ==
    Truthy(search.recipient_email) \/ Truthy(search.self_recipient_email)

====
